---- MODULE Spec2Model ----
(***************************************************************************)
(* Model of apps/backend/~/Dev/test1/sum_numbers.py: a script that takes   *)
(* two numbers as command-line arguments and prints their sum.             *)
(*                                                                         *)
(* Text is a sequence of one-character strings, so the conversions the     *)
(* script relies on (float() of an argument, repr() of the result) are     *)
(* computed character by character.  A float is a record                   *)
(*   [k |-> "nan" | "inf" | "fin", neg, m, e]                              *)
(* where a finite value is (-1)^neg * m * 10^e, written with its shortest  *)
(* decimal digits (m has no trailing zero; zero is m = 0, e = 0).  A       *)
(* decimal of at most 15 significant digits names exactly one double and   *)
(* is that double's shortest representation, so on the arguments of        *)
(* ArgPool this record identifies the IEEE-754 double that CPython holds.  *)
(***************************************************************************)
EXTENDS Integers, Sequences

(***************************************************************************)
(* Bounds of the model.                                                    *)
(***************************************************************************)
\* largest number of command-line arguments (program name excluded)
MaxArgs == 3

\* ------------------------------------------------------------------------
\* Characters and text
\* ------------------------------------------------------------------------
DigitChars == <<"0", "1", "2", "3", "4", "5", "6", "7", "8", "9">>

IsDigit(c) == \E i \in 1..10 : DigitChars[i] = c

DigitVal(c) == (CHOOSE i \in 1..10 : DigitChars[i] = c) - 1

\* the letters of "infinity" and "nan" are matched without regard to case
Lower(c) ==
  CASE c = "I" -> "i" [] c = "N" -> "n" [] c = "F" -> "f" [] c = "T" -> "t"
    [] c = "Y" -> "y" [] c = "A" -> "a" [] OTHER -> c

LowerAll(s) == [i \in 1..Len(s) |-> Lower(s[i])]

IsSpace(c) == c = " "

RECURSIVE LStrip(_)
LStrip(s) == IF s # <<>> /\ IsSpace(Head(s)) THEN LStrip(Tail(s)) ELSE s

RECURSIVE RStrip(_)
RStrip(s) ==
  IF s # <<>> /\ IsSpace(s[Len(s)]) THEN RStrip(SubSeq(s, 1, Len(s) - 1)) ELSE s

\* float() skips leading and trailing whitespace before it parses
Strip(s) == RStrip(LStrip(s))

\* An underscore is allowed only between two digits.
BadUnderscore(s) ==
  \E i \in 1..Len(s) :
    \/ s[i] = "_" /\ (i = 1 \/ ~IsDigit(s[i - 1]))
    \/ s[i] = "_" /\ (i = Len(s) \/ ~IsDigit(s[i + 1]))

RemoveUnderscores(s) == SelectSeq(s, LAMBDA c : c # "_")

\* the index after the run of digits of s that starts at index i
RECURSIVE DigitsEnd(_, _)
DigitsEnd(s, i) ==
  IF i <= Len(s) /\ IsDigit(s[i]) THEN DigitsEnd(s, i + 1) ELSE i

\* the number written by a sequence of digits (val[n]: by its first n)
DigitsVal(ds) ==
  LET val[n \in 0..Len(ds)] ==
        IF n = 0 THEN 0 ELSE 10 * val[n - 1] + DigitVal(ds[n])
  IN val[Len(ds)]

RECURSIVE Pow10(_)
Pow10(n) == IF n = 0 THEN 1 ELSE 10 * Pow10(n - 1)

RECURSIVE Pow5(_)
Pow5(n) == IF n = 0 THEN 1 ELSE 5 * Pow5(n - 1)

\* the number of decimal digits of m > 0
RECURSIVE NDigits(_)
NDigits(m) == IF m < 10 THEN 1 ELSE 1 + NDigits(m \div 10)

\* the decimal digits of m >= 0, as text
RECURSIVE DigitsOf(_)
DigitsOf(m) ==
  IF m < 10 THEN <<DigitChars[m + 1]>>
  ELSE DigitsOf(m \div 10) \o <<DigitChars[(m % 10) + 1]>>

Zeros(n) == [i \in 1..n |-> "0"]

\* ------------------------------------------------------------------------
\* Floating-point values
\* ------------------------------------------------------------------------
NaN == [k |-> "nan", neg |-> FALSE, m |-> 0, e |-> 0]

Inf(neg) == [k |-> "inf", neg |-> neg, m |-> 0, e |-> 0]

Zero(neg) == [k |-> "fin", neg |-> neg, m |-> 0, e |-> 0]

\* what float() yields for text that is no number: ValueError is raised
ValueError == [k |-> "ValueError", neg |-> FALSE, m |-> 0, e |-> 0]

\* m * 10^e with the trailing zeros of m moved into the exponent
RECURSIVE Fin(_, _, _)
Fin(neg, m, e) ==
  IF m % 10 = 0 THEN Fin(neg, m \div 10, e + 1)
  ELSE [k |-> "fin", neg |-> neg, m |-> m, e |-> e]

\* the exponent of v in scientific notation (v finite, not zero)
SciExp(v) == v.e + NDigits(v.m) - 1

\* the first four significant digits of m > 0, m of at most four digits
Lead4(m) == m * Pow10(4 - NDigits(m))

\* The double nearest to the decimal (-1)^neg * m * 10^e.  Above the largest
\* double (1.7976931348623157e308) the result is an infinity, and below half
\* the smallest subnormal (4.94e-324) it is a zero.  No case covers the
\* subnormal range or a mantissa of more than 15 digits.  (The arguments are
\* evaluated once, by passing them to a function.)
Round(neg, mant, exp10) ==
  LET round[m \in Nat, e \in Int] ==
        IF m = 0 THEN Zero(neg)
        ELSE LET d == e + NDigits(m) - 1 IN
          CASE d >= 309 -> Inf(neg)
            [] d = 308 /\ NDigits(m) <= 4 ->
                 IF Lead4(m) >= 1798 THEN Inf(neg) ELSE Fin(neg, m, e)
            [] d \in -307..307 /\ NDigits(m) <= 15 -> Fin(neg, m, e)
            [] d <= -325 -> Zero(neg)
  IN round[mant, exp10]

\* [sign] digits [. digits] [(e|E) [sign] digits], at least one digit in
\* the mantissa and at least one in an exponent, nothing after it
ParseDecimal(neg, b) ==
  LET i1 == DigitsEnd(b, 1)
      hasDot == i1 <= Len(b) /\ b[i1] = "."
      i2 == IF hasDot THEN DigitsEnd(b, i1 + 1) ELSE i1
      intp == SubSeq(b, 1, i1 - 1)
      frac == IF hasDot THEN SubSeq(b, i1 + 1, i2 - 1) ELSE <<>>
      hasExp == i2 <= Len(b) /\ b[i2] \in {"e", "E"}
      j == i2 + 1
      expSign == hasExp /\ j <= Len(b) /\ b[j] \in {"+", "-"}
      j2 == IF expSign THEN j + 1 ELSE j
      i3 == DigitsEnd(b, j2)
      expv == DigitsVal(SubSeq(b, j2, i3 - 1))
      exp10 == IF ~hasExp THEN 0
               ELSE IF expSign /\ b[j] = "-" THEN 0 - expv ELSE expv
      ok == /\ Len(intp) + Len(frac) >= 1
            /\ IF hasExp THEN i3 > j2 /\ i3 = Len(b) + 1 ELSE i2 = Len(b) + 1
  IN IF ok THEN Round(neg, DigitsVal(intp \o frac), exp10 - Len(frac))
     ELSE ValueError

ParseDouble(u) ==
  LET hasSign == u # <<>> /\ u[1] \in {"+", "-"}
      neg == hasSign /\ u[1] = "-"
      b == IF hasSign THEN Tail(u) ELSE u
      lb == LowerAll(b)
      decimal[d \in Seq(STRING)] == ParseDecimal(neg, d)
  IN IF lb \in {<<"i", "n", "f">>, <<"i", "n", "f", "i", "n", "i", "t", "y">>}
       THEN Inf(neg)
     ELSE IF lb = <<"n", "a", "n">> THEN NaN
     ELSE decimal[b]

\* float(s) of a str s: the double it denotes, or ValueError.  Blanks are
\* stripped first, then the underscores are checked and removed, then the
\* text is parsed.  (Each stage is a function, so that its argument is
\* evaluated once.)
float(s) ==
  LET parse[u \in Seq(STRING)] == ParseDouble(u)
      inner[t \in Seq(STRING)] ==
        IF BadUnderscore(t) THEN ValueError ELSE parse[RemoveUnderscores(t)]
  IN inner[Strip(s)]

\* a finite value that is a binary fraction of few bits: a sum of two of
\* them is computed without rounding
Exact(v) ==
  /\ v.e >= -4
  /\ SciExp(v) <= 4
  /\ v.e < 0 => v.m % Pow5(0 - v.e) = 0

Signed(v, emin) == (IF v.neg THEN -1 ELSE 1) * v.m * Pow10(v.e - emin)

\* x + y of two finite doubles.  Covered: a zero operand, x + (-x), x + x,
\* an operand below half an ulp of the other (18 decimal orders apart), and
\* two operands for which the addition is exact.
FinAdd(x, y) ==
  CASE x.m = 0 /\ y.m = 0 -> Zero(x.neg /\ y.neg)
    [] x.m = 0 /\ y.m # 0 -> y
    [] x.m # 0 /\ y.m = 0 -> x
    [] x.m # 0 /\ y.m # 0 ->
         CASE x.m = y.m /\ x.e = y.e /\ x.neg # y.neg -> Zero(FALSE)
           [] x = y -> Round(x.neg, 2 * x.m, x.e)
           [] SciExp(x) - SciExp(y) >= 18 -> x
           [] SciExp(y) - SciExp(x) >= 18 -> y
           [] /\ x.m # y.m \/ x.e # y.e
              /\ SciExp(x) - SciExp(y) \in -17..17
              /\ Exact(x) /\ Exact(y) ->
                LET emin == IF x.e < y.e THEN x.e ELSE y.e
                    sum == Signed(x, emin) + Signed(y, emin)
                IN Round(sum < 0, IF sum < 0 THEN 0 - sum ELSE sum, emin)

\* num1 + num2 of two floats (IEEE-754 binary64, round to nearest even)
FloatAdd(x, y) ==
  CASE x.k = "nan" \/ y.k = "nan" -> NaN
    [] x.k = "inf" /\ y.k = "inf" -> IF x.neg = y.neg THEN x ELSE NaN
    [] x.k = "inf" /\ y.k = "fin" -> x
    [] x.k = "fin" /\ y.k = "inf" -> y
    [] x.k = "fin" /\ y.k = "fin" -> FinAdd(x, y)

\* repr(v), the text print() writes for a float: the shortest digits that
\* read back as v, in fixed notation when the decimal point falls within
\* -4 < decpt <= 16 and in exponent notation otherwise
Repr(v) ==
  LET sign == IF v.neg THEN <<"-">> ELSE <<>> IN
  CASE v.k = "nan" -> <<"n", "a", "n">>
    [] v.k = "inf" -> sign \o <<"i", "n", "f">>
    [] v.k = "fin" /\ v.m = 0 -> sign \o <<"0", ".", "0">>
    [] v.k = "fin" /\ v.m # 0 ->
         LET ds == DigitsOf(v.m)
             n == Len(ds)
             decpt == SciExp(v) + 1
             x == decpt - 1
             ax == IF x < 0 THEN 0 - x ELSE x
         IN IF decpt <= -4 \/ decpt > 16
              THEN sign \o <<ds[1]>>
                   \o (IF n > 1 THEN <<".">> \o SubSeq(ds, 2, n) ELSE <<>>)
                   \o <<"e", IF x < 0 THEN "-" ELSE "+">>
                   \o (IF ax < 10 THEN <<"0">> ELSE <<>>) \o DigitsOf(ax)
            ELSE IF decpt <= 0
              THEN sign \o <<"0", ".">> \o Zeros(0 - decpt) \o ds
            ELSE IF decpt >= n
              THEN sign \o ds \o Zeros(decpt - n) \o <<".", "0">>
            ELSE sign \o SubSeq(ds, 1, decpt) \o <<".">> \o SubSeq(ds, decpt + 1, n)

\* ------------------------------------------------------------------------
\* The script
\* ------------------------------------------------------------------------
\* mutant: the usage line names no script
UsageMsg_Generic ==
  <<"U", "s", "a", "g", "e", ":", " ", "<", "p", "r", "o", "g", "r", "a",
    "m", ">", " ", "<", "n", "u", "m", "b", "e", "r", "1", ">", " ", "<", "n",
    "u", "m", "b", "e", "r", "2", ">">>

\* "Usage: python sum_numbers.py <number1> <number2>"
UsageMsg ==
  <<"U", "s", "a", "g", "e", ":", " ", "p", "y", "t", "h", "o", "n", " ",
    "s", "u", "m", "_", "n", "u", "m", "b", "e", "r", "s", ".", "p", "y", " ",
    "<", "n", "u", "m", "b", "e", "r", "1", ">", " ", "<", "n", "u", "m", "b",
    "e", "r", "2", ">">>

\* "Error: Both arguments must be numbers."
ErrorMsg ==
  <<"E", "r", "r", "o", "r", ":", " ", "B", "o", "t", "h", " ", "a", "r",
    "g", "u", "m", "e", "n", "t", "s", " ", "m", "u", "s", "t", " ", "b", "e",
    " ", "n", "u", "m", "b", "e", "r", "s", ".">>

\* mutant: the handler names another exception class
Except_TypeError(exc) == exc = "TypeError"

\* the clause "except ValueError" catches exactly ValueError
Except(exc) == exc = "ValueError"

\* a local variable that is not yet bound
None == [k |-> "None", neg |-> FALSE, m |-> 0, e |-> 0]

\* Command-line arguments the runs are started with: numbers in the forms
\* float() accepts (sign, fraction, exponent, surrounding blanks, digit
\* separator, infinities, NaN, a literal beyond the largest double) ...
NumericArgs == {
  <<"3">>,
  <<"5">>,
  <<"2", ".", "5">>,
  <<"-", "1", ".", "5">>,
  <<"1", "e", "2">>,
  <<" ", "3", " ">>,
  <<"1", "_", "0">>,
  <<"-", "0">>,
  <<"i", "n", "f">>,
  <<"-", "i", "n", "f">>,
  <<"N", "a", "N">>,
  <<"1", "e", "3", "0", "8">>,
  <<"1", "e", "3", "0", "9">> }

\* ... and text that float() rejects
OtherArgs == {
  <<"a", "b", "c">>,
  <<"f", "o", "o">>,
  <<>>,
  <<"1", "e">>,
  <<"1", "_", "_", "0">>,
  <<"0", "x", "1">> }

ArgPool == NumericArgs \cup OtherArgs

\* the arguments of the two-invocation specification
PairPool == {
  <<"3">>,
  <<"-", "1", ".", "5">>,
  <<"a", "b", "c">>,
  <<"1", "e">> }

\* the arguments of the specification with fairness
FairPool == {
  <<"-", "1", ".", "5">>,
  <<"1", "e", "3", "0", "8">>,
  <<"i", "n", "f">>,
  <<"-", "i", "n", "f">>,
  <<"a", "b", "c">> }

\* every argument list of at most MaxArgs arguments over the pool P
ArgvSet(P) == UNION {[1..n -> P] : n \in 0..MaxArgs}

\* ------------------------------------------------------------------------
\* State: one entry per invocation (process) of the script
\* ------------------------------------------------------------------------
VARIABLES
  argv,       \* sys.argv[1:], the arguments after the program name
  pc,         \* the line of main() the run executes next
  num1,       \* local variable num1
  num2,       \* local variable num2
  result,     \* local variable result
  stdout,     \* the lines written to standard output
  traceback,  \* TRUE once an exception has reached the top level uncaught
  status,     \* <<>> while the process runs, <<code>> once it has exited
  trace       \* history: the lines executed so far, "raise" for a ValueError

vars == <<argv, pc, num1, num2, result, stdout, traceback, status, trace>>

Runs == DOMAIN pc

InitRuns(R, P) ==
  /\ argv \in [R -> ArgvSet(P)]
  /\ pc = [r \in R |-> "l9"]
  /\ num1 = [r \in R |-> None]
  /\ num2 = [r \in R |-> None]
  /\ result = [r \in R |-> None]
  /\ stdout = [r \in R |-> <<>>]
  /\ traceback = [r \in R |-> FALSE]
  /\ status = [r \in R |-> <<>>]
  /\ trace = [r \in R |-> <<>>]

\* one invocation
Init == InitRuns({1}, ArgPool)

\* one invocation, for the properties that need fairness
FairInit == InitRuns({1}, FairPool)

\* two independent invocations
PairInit == InitRuns({1, 2}, PairPool)

Goto(r, line, done) ==
  /\ pc' = [pc EXCEPT ![r] = line]
  /\ trace' = [trace EXCEPT ![r] = @ \o done]

\* print(text): one more line on standard output
Write(r, text) == stdout' = [stdout EXCEPT ![r] = Append(@, text)]

\* the process ends with the exit status code
Exit(r, code, done) ==
  /\ status' = [status EXCEPT ![r] = <<code>>]
  /\ Goto(r, "done", done)

\* an exception no handler catches: the interpreter writes a traceback to
\* standard error and exits with status 1
Uncaught(r, done) ==
  /\ traceback' = [traceback EXCEPT ![r] = TRUE]
  /\ Exit(r, 1, done)

\* mutant: only too few arguments are rejected
CheckCount_TooFewOnly(r) ==
  /\ pc[r] = "l9"
  /\ Goto(r, IF Len(argv[r]) + 1 < 3 THEN "l10" ELSE "l14", <<"l9">>)
  /\ UNCHANGED <<argv, num1, num2, result, stdout, traceback, status>>

\* line 9: if len(sys.argv) != 3
CheckCount(r) ==
  /\ pc[r] = "l9"
  /\ Goto(r, IF Len(argv[r]) + 1 # 3 THEN "l10" ELSE "l14", <<"l9">>)
  /\ UNCHANGED <<argv, num1, num2, result, stdout, traceback, status>>

\* line 10: print("Usage: python sum_numbers.py <number1> <number2>")
PrintUsage(r) ==
  /\ pc[r] = "l10"
  /\ Write(r, UsageMsg)
  /\ Goto(r, "l11", <<"l10">>)
  /\ UNCHANGED <<argv, num1, num2, result, traceback, status>>

\* line 11: sys.exit(1), outside the try statement
ExitUsage(r) ==
  /\ pc[r] = "l11"
  /\ Exit(r, 1, <<"l11">>)
  /\ UNCHANGED <<argv, num1, num2, result, stdout, traceback>>

\* mutant: a first argument that does not parse counts as 0.0
ParseNum1_Default(r) ==
  /\ pc[r] = "l14"
  /\ LET v == float(argv[r][1]) IN
       IF v # ValueError
         THEN /\ num1' = [num1 EXCEPT ![r] = v]
              /\ Goto(r, "l15", <<"l14">>)
       ELSE /\ num1' = [num1 EXCEPT ![r] = Zero(FALSE)]
            /\ Goto(r, "l15", <<"l14", "raise">>)
  /\ UNCHANGED <<argv, num2, result, stdout, traceback, status>>

\* line 14: num1 = float(sys.argv[1]), inside the try statement
ParseNum1(r) ==
  /\ pc[r] = "l14"
  /\ LET v == float(argv[r][1]) IN
       IF v # ValueError
         THEN /\ num1' = [num1 EXCEPT ![r] = v]
              /\ Goto(r, "l15", <<"l14">>)
              /\ UNCHANGED <<traceback, status>>
       ELSE IF Except("ValueError")
         THEN /\ Goto(r, "l17", <<"l14", "raise">>)
              /\ UNCHANGED <<num1, traceback, status>>
       ELSE /\ Uncaught(r, <<"l14", "raise">>)
            /\ UNCHANGED num1
  /\ UNCHANGED <<argv, num2, result, stdout>>

\* mutant: num2 = float(sys.argv[1])
ParseNum2_WrongIndex(r) ==
  /\ pc[r] = "l15"
  /\ LET v == float(argv[r][1]) IN
       IF v # ValueError
         THEN /\ num2' = [num2 EXCEPT ![r] = v]
              /\ Goto(r, "l20", <<"l15">>)
              /\ UNCHANGED <<traceback, status>>
       ELSE IF Except("ValueError")
         THEN /\ Goto(r, "l17", <<"l15", "raise">>)
              /\ UNCHANGED <<num2, traceback, status>>
       ELSE /\ Uncaught(r, <<"l15", "raise">>)
            /\ UNCHANGED num2
  /\ UNCHANGED <<argv, num1, result, stdout>>

\* mutant: the second conversion stands after the try statement
ParseNum2_Unguarded(r) ==
  /\ pc[r] = "l15"
  /\ LET v == float(argv[r][2]) IN
       IF v # ValueError
         THEN /\ num2' = [num2 EXCEPT ![r] = v]
              /\ Goto(r, "l20", <<"l15">>)
              /\ UNCHANGED <<traceback, status>>
       ELSE /\ Uncaught(r, <<"l15", "raise">>)
            /\ UNCHANGED num2
  /\ UNCHANGED <<argv, num1, result, stdout>>

\* line 15: num2 = float(sys.argv[2]), inside the try statement
ParseNum2(r) ==
  /\ pc[r] = "l15"
  /\ LET v == float(argv[r][2]) IN
       IF v # ValueError
         THEN /\ num2' = [num2 EXCEPT ![r] = v]
              /\ Goto(r, "l20", <<"l15">>)
              /\ UNCHANGED <<traceback, status>>
       ELSE IF Except("ValueError")
         THEN /\ Goto(r, "l17", <<"l15", "raise">>)
              /\ UNCHANGED <<num2, traceback, status>>
       ELSE /\ Uncaught(r, <<"l15", "raise">>)
            /\ UNCHANGED num2
  /\ UNCHANGED <<argv, num1, result, stdout>>

\* line 17: print("Error: Both arguments must be numbers.")
PrintError(r) ==
  /\ pc[r] = "l17"
  /\ Write(r, ErrorMsg)
  /\ Goto(r, "l18", <<"l17">>)
  /\ UNCHANGED <<argv, num1, num2, result, traceback, status>>

\* mutant: sys.exit(0) in the handler
ExitError_Zero(r) ==
  /\ pc[r] = "l18"
  /\ Exit(r, 0, <<"l18">>)
  /\ UNCHANGED <<argv, num1, num2, result, stdout, traceback>>

\* line 18: sys.exit(1) in the handler; SystemExit is no ValueError
ExitError(r) ==
  /\ pc[r] = "l18"
  /\ Exit(r, 1, <<"l18">>)
  /\ UNCHANGED <<argv, num1, num2, result, stdout, traceback>>

\* mutant: result = num1 + num1
Add_FirstTwice(r) ==
  /\ pc[r] = "l20"
  /\ result' = [result EXCEPT ![r] = FloatAdd(num1[r], num1[r])]
  /\ Goto(r, "l21", <<"l20">>)
  /\ UNCHANGED <<argv, num1, num2, stdout, traceback, status>>

\* mutant: a sum that is not finite raises an error nothing catches
Add_Raises(r) ==
  /\ pc[r] = "l20"
  /\ LET v == FloatAdd(num1[r], num2[r]) IN
       IF v.k = "fin"
         THEN /\ result' = [result EXCEPT ![r] = v]
              /\ Goto(r, "l21", <<"l20">>)
              /\ UNCHANGED <<traceback, status>>
       ELSE /\ Uncaught(r, <<"l20", "raise">>)
            /\ UNCHANGED result
  /\ UNCHANGED <<argv, num1, num2, stdout>>

\* line 20: result = num1 + num2
Add(r) ==
  /\ pc[r] = "l20"
  /\ result' = [result EXCEPT ![r] = FloatAdd(num1[r], num2[r])]
  /\ Goto(r, "l21", <<"l20">>)
  /\ UNCHANGED <<argv, num1, num2, stdout, traceback, status>>

\* mutant: the result is computed and not printed
PrintResult_Silent(r) ==
  /\ pc[r] = "l21"
  /\ Goto(r, "end", <<"l21">>)
  /\ UNCHANGED <<argv, num1, num2, result, stdout, traceback, status>>

\* line 21: print(result)
PrintResult(r) ==
  /\ pc[r] = "l21"
  /\ Write(r, Repr(result[r]))
  /\ Goto(r, "end", <<"l21">>)
  /\ UNCHANGED <<argv, num1, num2, result, traceback, status>>

\* main() returns to line 24 and the module ends: exit status 0
Return(r) ==
  /\ pc[r] = "end"
  /\ Exit(r, 0, <<"end">>)
  /\ UNCHANGED <<argv, num1, num2, result, stdout, traceback>>

Next ==
  \E r \in Runs :
    \/ CheckCount(r)
    \/ PrintUsage(r)
    \/ ExitUsage(r)
    \/ ParseNum1(r)
    \/ ParseNum2(r)
    \/ PrintError(r)
    \/ ExitError(r)
    \/ Add(r)
    \/ PrintResult(r)
    \/ Return(r)

Spec == Init /\ [][Next]_vars

\* the interpreter never stops between two statements
FairSpec == FairInit /\ [][Next]_vars /\ WF_vars(Next)

PairSpec == PairInit /\ [][Next]_vars

TypeOK ==
  /\ \A r \in Runs :
       pc[r] \in {"l9", "l10", "l11", "l14", "l15", "l17", "l18", "l20", "l21",
                  "end", "done"}
  /\ \A r \in Runs : status[r] \in {<<>>, <<0>>, <<1>>}

\* ------------------------------------------------------------------------
\* Properties
\* ------------------------------------------------------------------------
Done(r) == pc[r] = "done"

Parses(s) == float(s) # ValueError

\* the run r was started with two arguments that both parse
BothParse(r) == Len(argv[r]) = 2 /\ Parses(argv[r][1]) /\ Parses(argv[r][2])

\* the run r was started with two arguments of which one at least does not parse
SomeUnparsed(r) == Len(argv[r]) = 2 /\ (~Parses(argv[r][1]) \/ ~Parses(argv[r][2]))

IsPrefix(s, t) == Len(s) <= Len(t) /\ SubSeq(t, 1, Len(s)) = s

\* C1: a run started with any number of arguments other than two, whatever
\* the arguments are, ends with the usage message as its only output and
\* with exit status 1.
C1_UsageOnWrongCount ==
  \A r \in Runs :
    Done(r) /\ Len(argv[r]) # 2 => stdout[r] = <<UsageMsg>> /\ status[r] = <<1>>

C1_Witness ==
  \E r \in Runs :
    /\ Done(r) /\ Len(argv[r]) = 3
    /\ \A i \in 1..3 : Parses(argv[r][i])
    /\ stdout[r] = <<UsageMsg>> /\ status[r] = <<1>>

\* C2: a run started with exactly two arguments of which at least one is not
\* parseable as a float never writes anything but the error message, never
\* computes a result, and ends with the error message as its only output and
\* with exit status 1.
C2_ErrorOnUnparsed ==
  \A r \in Runs :
    SomeUnparsed(r) =>
      /\ \A i \in 1..Len(stdout[r]) : stdout[r][i] = ErrorMsg
      /\ result[r] = None
      /\ Done(r) => stdout[r] = <<ErrorMsg>> /\ status[r] = <<1>>

C2_Witness ==
  \E r \in Runs :
    /\ Done(r) /\ Len(argv[r]) = 2
    /\ Parses(argv[r][1]) /\ ~Parses(argv[r][2])
    /\ stdout[r] = <<ErrorMsg>> /\ status[r] = <<1>>

\* C3: a run started with exactly two arguments that parse as finite floats
\* ends with exit status 0 and one line of output, which is neither message
\* and which reads back as float(a) + float(b), first operand plus second.
C3_PrintsSum ==
  \A r \in Runs :
    /\ Done(r) /\ BothParse(r)
    /\ float(argv[r][1]).k = "fin" /\ float(argv[r][2]).k = "fin"
    => /\ status[r] = <<0>>
       /\ Len(stdout[r]) = 1
       /\ stdout[r][1] \notin {UsageMsg, ErrorMsg}
       /\ float(stdout[r][1]) = FloatAdd(float(argv[r][1]), float(argv[r][2]))

C3_Witness ==
  \E r \in Runs :
    /\ Done(r) /\ BothParse(r)
    /\ float(argv[r][1]).k = "fin" /\ float(argv[r][2]).k = "fin"
    /\ float(argv[r][1]) # float(argv[r][2])
    /\ float(argv[r][2]).m # 0
    /\ stdout[r] = <<Repr(FloatAdd(float(argv[r][1]), float(argv[r][2])))>>

\* C4: a run that has ended has written exactly one line, and that line is
\* exactly one of the usage message, the error message and the text of the
\* computed result.
C4_ExactlyOneLine ==
  \A r \in Runs :
    Done(r) =>
      /\ Len(stdout[r]) = 1
      /\ LET line == stdout[r][1]
             isResult == result[r] # None /\ line = Repr(result[r])
         IN /\ line = UsageMsg \/ line = ErrorMsg \/ isResult
            /\ ~(line = UsageMsg /\ line = ErrorMsg)
            /\ ~(line = UsageMsg /\ isResult)
            /\ ~(line = ErrorMsg /\ isResult)

C4_Witness ==
  \E r \in Runs :
    Done(r) /\ result[r] # None /\ stdout[r] = <<Repr(result[r])>>

\* C5 (as stated): with an argument count other than two, the usage line
\* written is the text "Usage: <program> <number1> <number2>".
C5_Original ==
  \A r \in Runs :
    Done(r) /\ Len(argv[r]) # 2 =>
      stdout[r] = <<<<"U", "s", "a", "g", "e", ":", " ", "<", "p", "r", "o",
        "g", "r", "a", "m", ">", " ", "<", "n", "u", "m", "b", "e", "r", "1",
        ">", " ", "<", "n", "u", "m", "b", "e", "r", "2", ">">>>>

\* C5 (amended): with an argument count other than two, from the moment
\* line 10 has run the output is the one line
\* "Usage: python sum_numbers.py <number1> <number2>", the same for every
\* argument count and content.
C5_UsageText ==
  \A r \in Runs :
    Len(argv[r]) # 2 /\ pc[r] \in {"l11", "done"} =>
      stdout[r] = <<<<"U", "s", "a", "g", "e", ":", " ", "p", "y", "t", "h",
        "o", "n", " ", "s", "u", "m", "_", "n", "u", "m", "b", "e", "r", "s",
        ".", "p", "y", " ", "<", "n", "u", "m", "b", "e", "r", "1", ">", " ",
        "<", "n", "u", "m", "b", "e", "r", "2", ">">>>>

C5_Witness ==
  \E r \in Runs :
    Done(r) /\ Len(argv[r]) = 1 /\ Parses(argv[r][1]) /\ stdout[r] = <<UsageMsg>>

\* C6: in a run that has ended, the exit status is 0 exactly when the result
\* was printed, which is exactly when two arguments were given and both
\* parsed; it is 1 exactly when the usage or the error message was printed.
C6_StatusMatchesOutput ==
  \A r \in Runs :
    Done(r) =>
      LET printedResult == result[r] # None /\ stdout[r] = <<Repr(result[r])>>
          printedMsg == stdout[r] = <<UsageMsg>> \/ stdout[r] = <<ErrorMsg>>
      IN /\ status[r] = <<0>> <=> printedResult
         /\ status[r] = <<0>> <=> BothParse(r)
         /\ status[r] = <<1>> <=> printedMsg
         /\ ~(printedResult /\ printedMsg)

C6_Witness ==
  \E r \in Runs :
    Done(r) /\ status[r] = <<0>> /\ BothParse(r) /\ stdout[r] = <<Repr(result[r])>>

\* C7: of two runs that have ended, one started with two numeric arguments
\* [a, b] and the other with [b, a], the output and the exit status are the
\* same.
C7_Commutative ==
  \A r \in Runs : \A q \in Runs :
    /\ Done(r) /\ Done(q) /\ BothParse(r)
    /\ argv[q] = <<argv[r][2], argv[r][1]>>
    => stdout[r] = stdout[q] /\ status[r] = status[q]

C7_Witness ==
  \E r \in Runs : \E q \in Runs :
    /\ Done(r) /\ Done(q) /\ BothParse(r)
    /\ argv[r][1] # argv[r][2]
    /\ argv[q] = <<argv[r][2], argv[r][1]>>
    /\ Len(stdout[r]) = 1 /\ stdout[r] = stdout[q] /\ status[q] = <<0>>

\* C8: two runs that have ended, each started with two arguments of which at
\* least one does not parse, have the same output and the same exit status,
\* whichever of the arguments (the first, the second, or both) failed.
C8_FailurePositionHidden ==
  \A r \in Runs : \A q \in Runs :
    Done(r) /\ Done(q) /\ SomeUnparsed(r) /\ SomeUnparsed(q)
    => stdout[r] = stdout[q] /\ status[r] = status[q]

C8_Witness ==
  \E r \in Runs : \E q \in Runs :
    /\ Done(r) /\ Done(q) /\ Len(argv[r]) = 2 /\ Len(argv[q]) = 2
    /\ ~Parses(argv[r][1]) /\ Parses(argv[r][2])
    /\ Parses(argv[q][1]) /\ ~Parses(argv[q][2])
    /\ stdout[r] = <<ErrorMsg>> /\ stdout[q] = <<ErrorMsg>>

UsagePath == <<"l9", "l10", "l11">>

Parse1FailPath == <<"l9", "l14", "raise", "l17", "l18">>

Parse2FailPath == <<"l9", "l14", "l15", "raise", "l17", "l18">>

SuccessPath == <<"l9", "l14", "l15", "l20", "l21", "end">>

\* C9: the lines a run has executed are always an initial part of one of
\* four paths: count check, usage, exit; count check, parse 1 fails, error,
\* exit; count check, parse 1, parse 2 fails, error, exit; count check,
\* parse 1, parse 2, addition, print, return; and a run that has ended has
\* executed one of them in full.  After a count failure nothing is parsed,
\* after a failed parse of argument 1 argument 2 is not parsed, and once a
\* message is written the only step left is the exit and no result exists.
C9_LinearPass ==
  \A r \in Runs :
    /\ \E p \in {UsagePath, Parse1FailPath, Parse2FailPath, SuccessPath} :
         IsPrefix(trace[r], p) /\ (Done(r) => trace[r] = p)
    /\ Len(argv[r]) # 2 =>
         IsPrefix(trace[r], UsagePath) /\ num1[r] = None /\ num2[r] = None
    /\ Len(argv[r]) = 2 /\ ~Parses(argv[r][1]) =>
         IsPrefix(trace[r], Parse1FailPath) /\ num2[r] = None
    /\ (\E i \in 1..Len(stdout[r]) : stdout[r][i] \in {UsageMsg, ErrorMsg}) =>
         pc[r] \in {"l11", "l18", "done"} /\ result[r] = None

C9_Witness ==
  \E r \in Runs :
    /\ Done(r) /\ trace[r] = Parse1FailPath
    /\ Len(argv[r]) = 2 /\ Parses(argv[r][2]) /\ num2[r] = None

\* C10: every run ends; it never ends with an uncaught error and it ends in
\* one of three outcomes (usage message and status 1, error message and
\* status 1, result and status 0); and once both arguments have parsed the
\* run goes on to print the sum and exit with status 0, also when the sum
\* is an infinity or NaN.
C10_Terminates ==
  /\ <>(\A r \in Runs : Done(r))
  /\ [](\A r \in Runs :
          /\ ~traceback[r]
          /\ Done(r) =>
               \/ status[r] = <<1>> /\ stdout[r] = <<UsageMsg>>
               \/ status[r] = <<1>> /\ stdout[r] = <<ErrorMsg>>
               \/ status[r] = <<0>> /\ result[r] # None
                    /\ stdout[r] = <<Repr(result[r])>>)
  /\ (\E r \in Runs : num2[r] # None)
       ~> (\A r \in Runs : num2[r] # None =>
             /\ Done(r) /\ status[r] = <<0>>
             /\ stdout[r] = <<Repr(FloatAdd(num1[r], num2[r]))>>)

C10_Witness ==
  \E r \in Runs :
    /\ Done(r) /\ status[r] = <<0>>
    /\ num1[r].k = "fin" /\ num2[r].k = "fin"
    /\ result[r].k = "inf" /\ stdout[r] = <<<<"i", "n", "f">>>>

====
